---- MODULE Spec2Model ----
(***************************************************************************)
(* Model of the USB weather-station collector (collector.py) and of the    *)
(* Streamlit reader (app.py).                                              *)
(*                                                                         *)
(* Text is a sequence of one-character strings, so that strip, split,      *)
(* lower and float act on the characters as the Python built-ins do.       *)
(* A file is an inode holding a prefix of a serialised record; a path is   *)
(* a directory entry naming an inode.                                      *)
(***************************************************************************)
EXTENDS Integers, Sequences, FiniteSets, TLC

VARIABLES
    frame,      \* main: the list `frame` of buffered raw lines
    pc,         \* main: where the collector is ("poll", inside write_atomic, "crashed")
    payload,    \* write_atomic: the sample being published
    site,       \* which call of write_atomic is running: "single" or "frame"
    now,        \* the clock read by datetime.now(), one tick per loop iteration
    names,      \* the directory: OUT_FILE and its ".tmp" sibling, each an inode or NoIno
    inodes,     \* the inodes' contents
    rd,         \* the readers (app.py), one script run each at a time
    sent,       \* the sensor: how the line it sent last was put together
    hist,       \* history: samples built and published, lines buffered
    last        \* history: what the last loop iteration did

vars == <<frame, pc, payload, site, now, names, inodes, rd, sent, hist, last>>

-----------------------------------------------------------------------------
(* Python's str methods, on sequences of characters.                       *)

WS == {" "}

UPPER == <<"A","B","C","D","E","F","G","H","I","J","K","L","M",
           "N","O","P","Q","R","S","T","U","V","W","X","Y","Z">>

LOWER == <<"a","b","c","d","e","f","g","h","i","j","k","l","m",
           "n","o","p","q","r","s","t","u","v","w","x","y","z">>

DIGITS == <<"0","1","2","3","4","5","6","7","8","9">>

\* faulty variant of lower_char: keys are compared as written
lower_char_same(c) == c

\* str.lower on one character
lower_char(c) ==
    IF \E i \in 1..Len(UPPER) : UPPER[i] = c
    THEN LOWER[CHOOSE i \in 1..Len(UPPER) : UPPER[i] = c]
    ELSE c

\* str.lower
lower(s) == [i \in 1..Len(s) |-> lower_char(s[i])]

\* faulty variant of strip: the text as it is
strip_none(s) == SubSeq(s, 1, Len(s))

\* str.strip: drop leading and trailing whitespace
strip(s) ==
    LET keep == {i \in 1..Len(s) : s[i] \notin WS}
    IN  IF keep = {} THEN <<>>
        ELSE LET lo == CHOOSE i \in keep : \A j \in keep : i <= j
                 hi == CHOOSE i \in keep : \A j \in keep : j <= i
             IN  SubSeq(s, lo, hi)

\* `c in s` for a one-character c
contains(s, c) == \E i \in 1..Len(s) : s[i] = c

\* index of the first c in s (s contains c)
find(s, c) == CHOOSE i \in 1..Len(s) : s[i] = c /\ \A j \in 1..(i-1) : s[j] # c

\* s.split(c, 1): at most one split, at the first c
split1(s, c) ==
    IF contains(s, c)
    THEN <<SubSeq(s, 1, find(s, c) - 1), SubSeq(s, find(s, c) + 1, Len(s))>>
    ELSE <<s>>

\* s.split(c): split at every c
RECURSIVE split(_, _)
split(s, c) ==
    IF contains(s, c)
    THEN <<SubSeq(s, 1, find(s, c) - 1)>> \o split(SubSeq(s, find(s, c) + 1, Len(s)), c)
    ELSE <<s>>

-----------------------------------------------------------------------------
(* float(): the value of a decimal literal m * 10^-e, kept exact and       *)
(* normalised (no trailing zero in the fraction), or nan / inf.            *)

NoVal == [kind |-> "none", m |-> 0, e |-> 0]

digit_val(c) == (CHOOSE i \in 1..Len(DIGITS) : DIGITS[i] = c) - 1

is_digit(c) == \E i \in 1..Len(DIGITS) : DIGITS[i] = c

RECURSIVE digits_val(_)
digits_val(s) ==
    IF s = <<>> THEN 0
    ELSE 10 * digits_val(SubSeq(s, 1, Len(s) - 1)) + digit_val(s[Len(s)])

RECURSIVE normalise(_, _)
normalise(m, e) ==
    IF e > 0 /\ m % 10 = 0 THEN normalise(m \div 10, e - 1)
    ELSE [kind |-> "finite", m |-> m, e |-> e]

\* the result of float(s): [ok, val]; ok = FALSE is ValueError
float(s) ==
    LET t    == strip(s)
        neg  == t # <<>> /\ t[1] = "-"
        body == IF t # <<>> /\ t[1] \in {"-", "+"} THEN Tail(t) ELSE t
        parts == split1(body, ".")
        ip   == parts[1]
        fp   == IF Len(parts) = 2 THEN parts[2] ELSE <<>>
        word == lower(body)
        sgn  == IF neg THEN -1 ELSE 1
    IN  IF word = <<"n","a","n">>
        THEN [ok |-> TRUE, val |-> [kind |-> "nan", m |-> 0, e |-> 0]]
        ELSE IF word \in {<<"i","n","f">>, <<"i","n","f","i","n","i","t","y">>}
        THEN [ok |-> TRUE, val |-> [kind |-> "inf", m |-> sgn, e |-> 0]]
        ELSE IF /\ Len(ip) + Len(fp) > 0
                /\ \A i \in 1..Len(ip) : is_digit(ip[i])
                /\ \A i \in 1..Len(fp) : is_digit(fp[i])
        THEN [ok |-> TRUE,
              val |-> normalise(sgn * digits_val(ip \o fp), Len(fp))]
        ELSE [ok |-> FALSE, val |-> NoVal]

-----------------------------------------------------------------------------
(* dict: a sequence of <<key, value>> pairs in insertion order; assigning  *)
(* to a key already present replaces its value and keeps its place.        *)

dict_has(d, k) == \E i \in 1..Len(d) : d[i][1] = k

dict_get(d, k) == d[CHOOSE i \in 1..Len(d) : d[i][1] = k][2]

dict_set(d, k, v) ==
    IF dict_has(d, k)
    THEN LET i == CHOOSE j \in 1..Len(d) : d[j][1] = k
         IN  SubSeq(d, 1, i - 1) \o << <<k, v>> >> \o SubSeq(d, i + 1, Len(d))
    ELSE Append(d, <<k, v>>)

\* dict(pairs)
RECURSIVE dict_of(_)
dict_of(pairs) ==
    IF pairs = <<>> THEN <<>>
    ELSE dict_set(dict_of(SubSeq(pairs, 1, Len(pairs) - 1)),
                  pairs[Len(pairs)][1], pairs[Len(pairs)][2])

-----------------------------------------------------------------------------
(* collector.py: key normaliser, sample builder and the two grammars.      *)

\* faulty variant of alias: rh and ba feed each other's field
alias_swapped ==
    <<  << <<"t">>, "temperature" >>,
        << <<"t","e","m","p">>, "temperature" >>,
        << <<"t","e","m","p","e","r","a","t","u","r","e">>, "temperature" >>,
        << <<"t","a">>, "temperature" >>,
        << <<"h">>, "humidity" >>,
        << <<"h","u","m">>, "humidity" >>,
        << <<"h","u","m","i","d","i","t","y">>, "humidity" >>,
        << <<"r","h">>, "pressure" >>,
        << <<"p">>, "pressure" >>,
        << <<"p","r","e","s">>, "pressure" >>,
        << <<"p","r","e","s","s","u","r","e">>, "pressure" >>,
        << <<"b","a">>, "humidity" >>  >>

alias ==
    <<  << <<"t">>, "temperature" >>,
        << <<"t","e","m","p">>, "temperature" >>,
        << <<"t","e","m","p","e","r","a","t","u","r","e">>, "temperature" >>,
        << <<"t","a">>, "temperature" >>,
        << <<"h">>, "humidity" >>,
        << <<"h","u","m">>, "humidity" >>,
        << <<"h","u","m","i","d","i","t","y">>, "humidity" >>,
        << <<"r","h">>, "humidity" >>,
        << <<"p">>, "pressure" >>,
        << <<"p","r","e","s">>, "pressure" >>,
        << <<"p","r","e","s","s","u","r","e">>, "pressure" >>,
        << <<"b","a">>, "pressure" >>  >>

\* faulty variant of normalize_item: a key is looked up by its first two
\* characters, so that an unknown key starting like an alias feeds a field
normalize_item_prefix(normalized, item) ==
    LET key == lower(strip(item[1]))
        clean_key == IF Len(key) > 2 /\ ~dict_has(alias, key)
                     THEN SubSeq(key, 1, 2) ELSE key
    IN  IF dict_has(alias, clean_key)
        THEN dict_set(normalized, dict_get(alias, clean_key), strip(item[2]))
        ELSE normalized

\* the loop body of _normalize_keys for one item of the payload
normalize_item(normalized, item) ==
    LET clean_key == lower(strip(item[1]))
    IN  IF dict_has(alias, clean_key)
        THEN dict_set(normalized, dict_get(alias, clean_key), strip(item[2]))
        ELSE normalized

\* _normalize_keys: the payload's items in insertion order
RECURSIVE _normalize_keys(_)
_normalize_keys(kv) ==
    IF kv = <<>> THEN <<>>
    ELSE normalize_item(_normalize_keys(SubSeq(kv, 1, Len(kv) - 1)), kv[Len(kv)])

NoSample ==
    [ts |-> 0, temperature_c |-> NoVal, humidity_pct |-> NoVal, pressure_hpa |-> NoVal]

Raise(e) == [ok |-> FALSE, err |-> e, sample |-> NoSample]

Return(s) == [ok |-> TRUE, err |-> "", sample |-> s]

\* faulty variant of _build_sample: a missing field reads as 0
_build_sample_default(kv, t) ==
    LET data == _normalize_keys(kv)
        f(k) == IF dict_has(data, k) THEN float(dict_get(data, k))
                ELSE float(<<"0">>)
    IN  IF ~f("temperature").ok \/ ~f("humidity").ok \/ ~f("pressure").ok
        THEN Raise("ValueError")
        ELSE Return([ts |-> t,
                     temperature_c |-> f("temperature").val,
                     humidity_pct |-> f("humidity").val,
                     pressure_hpa |-> f("pressure").val])

\* _build_sample: the three lookups and conversions in the order the dict
\* literal evaluates them; the first that raises decides the exception
_build_sample(kv, t) ==
    LET data == _normalize_keys(kv)
        f(k) == float(dict_get(data, k))
    IN  IF ~dict_has(data, "temperature") THEN Raise("KeyError")
        ELSE IF ~f("temperature").ok THEN Raise("ValueError")
        ELSE IF ~dict_has(data, "humidity") THEN Raise("KeyError")
        ELSE IF ~f("humidity").ok THEN Raise("ValueError")
        ELSE IF ~dict_has(data, "pressure") THEN Raise("KeyError")
        ELSE IF ~f("pressure").ok THEN Raise("ValueError")
        ELSE Return([ts |-> t,
                     temperature_c |-> f("temperature").val,
                     humidity_pct |-> f("humidity").val,
                     pressure_hpa |-> f("pressure").val])

\* parse_line: [x.strip() for x in line.split(",") if "=" in x]
chunks_of(line) ==
    LET xs == split(line, ",")
    IN  [i \in 1..Len(SelectSeq(xs, LAMBDA x : contains(x, "="))) |->
            strip(SelectSeq(xs, LAMBDA x : contains(x, "="))[i])]

\* parse_line: dict(chunk.split("=", 1) for chunk in chunks)
line_kv(line) ==
    LET chunks == chunks_of(line)
    IN  dict_of([i \in 1..Len(chunks) |-> split1(chunks[i], "=")])

parse_line(line, t) == _build_sample(line_kv(line), t)

\* faulty variant: the value is all the text after the first colon
amws_line_rest(kv, line) ==
    IF ~contains(line, ":") THEN kv
    ELSE dict_set(kv, strip(split1(line, ":")[1]), strip(split1(line, ":")[2]))

\* parse_amws_frame: the body of the loop over the lines
amws_line(kv, line) ==
    IF ~contains(line, ":") THEN kv
    ELSE dict_set(kv, strip(split1(line, ":")[1]),
                  split1(strip(split1(line, ":")[2]), ":")[1])

\* parse_amws_frame: the loop, the lines taken in order from kv on.  A long
\* list is walked as its first half, then its second half, and Len(kv) has
\* the dict built so far evaluated before the next line is taken.
RECURSIVE amws_loop(_, _)
amws_loop(kv, lines) ==
    IF Len(kv) >= 0 /\ Len(lines) = 0 THEN kv
    ELSE IF Len(lines) = 1 THEN amws_line(kv, lines[1])
    ELSE amws_loop(amws_loop(kv, SubSeq(lines, 1, Len(lines) \div 2)),
                   SubSeq(lines, Len(lines) \div 2 + 1, Len(lines)))

amws_kv(lines) == amws_loop(<<>>, lines)

parse_amws_frame(lines, t) == _build_sample(amws_kv(lines), t)

\* faulty variant of _try_parse_single: the exception is not caught
_try_parse_single_uncaught(raw, t) ==
    LET r == parse_line(raw, t)
    IN  [raised |-> ~r.ok, some |-> r.ok, sample |-> r.sample]

\* _try_parse_single: any exception of parse_line becomes None (ok = FALSE,
\* nothing raised)
_try_parse_single(raw, t) ==
    LET r == parse_line(raw, t)
    IN  [raised |-> FALSE, some |-> r.ok, sample |-> r.sample]

-----------------------------------------------------------------------------
(* The files.  A file's text is the first n chunks of json.dumps(of); it   *)
(* is a complete record when n = NChunks.                                  *)

NChunks == 2

NumReaders == 1

Readers == 1..NumReaders

NoIno == 0

Inos == 1..(NumReaders + 2)

NoText == [of |-> NoSample, n |-> 0]

\* json.dumps(payload)
json_dumps(p) == [of |-> p, n |-> NChunks]

\* json.loads(text): the object, or an exception on anything but a whole record
json_loads(text) ==
    IF text.n = NChunks /\ text.of # NoSample THEN Return(text.of)
    ELSE Raise("JSONDecodeError")

\* faulty variant of with_suffix_tmp: the record is written to OUT_FILE itself
with_suffix_same == "out"

\* path.with_suffix(path.suffix + ".tmp"): the directory entry written to
with_suffix_tmp == "tmp"

\* faulty variant of replace: the rename is left out
replace_missing(nm, src, dst) == nm

\* src.replace(dst) on the directory: dst names src's inode, src is gone
replace(nm, src, dst) ==
    IF src = dst THEN nm ELSE [nm EXCEPT ![dst] = nm[src], ![src] = NoIno]

\* inodes still named by a path or held open by a reader
Live(nm, readers) ==
    ({nm[k] : k \in DOMAIN nm} \cup {readers[r].fd : r \in Readers}) \ {NoIno}

Collect(ino, nm, readers) == [i \in Live(nm, readers) |-> ino[i]]

FreshIno ==
    CHOOSE i \in Inos : i \notin DOMAIN inodes /\
        \A j \in Inos : j < i => j \in DOMAIN inodes

\* the text OUT_FILE holds; NoText when the path does not exist
Snapshot == IF names["out"] = NoIno THEN NoText ELSE inodes[names["out"]]

-----------------------------------------------------------------------------
(* collector.py main: one loop iteration up to the call of write_atomic.   *)

MAX_FRAME == 300

KEEP_TAIL == 50

Tilde == <<"~">>

\* faulty variant of truncate: the oldest lines are kept, frame[:50]
truncate_head(f) ==
    IF Len(f) > MAX_FRAME THEN SubSeq(f, 1, KEEP_TAIL) ELSE f

\* faulty variant of truncate: the buffer is cleared
truncate_clear(f) ==
    IF Len(f) > MAX_FRAME THEN <<>> ELSE f

\* if len(frame) > 300: frame = frame[-50:]
truncate(f) ==
    IF Len(f) > MAX_FRAME THEN SubSeq(f, Len(f) - KEEP_TAIL + 1, Len(f)) ELSE f

\* faulty variant: no call of write_atomic is inside a try
caught_never(s) == s = "frame" /\ s = "single"

\* whether main catches an exception of write_atomic at this call site
caught(s) == s = "frame"

NoResult == Raise("")

NoLast ==
    [raw |-> <<>>, pre |-> <<>>, fed |-> <<>>, before |-> NoText,
     lineRes |-> NoResult, tried |-> FALSE, frameRes |-> NoResult,
     wrote |-> "none", site |-> "none"]

NoHist == [pubs |-> <<>>, built |-> NoSample, failed |-> FALSE, fed |-> <<>>]

\* raw = ser.readline().decode(errors="ignore").strip(), and the rest of the body
ReadLine(line) ==
    /\ pc = "poll"
    /\ now' = now + 1
    /\ UNCHANGED <<names, inodes, rd>>
    /\ LET raw      == strip(line)
           single   == _try_parse_single(raw, now)
           appended == Append(frame, raw)
           sample   == parse_amws_frame(appended, now)
           base     == [NoLast EXCEPT !.raw = raw, !.pre = frame, !.fed = hist.fed,
                                      !.before = Snapshot]
           tried    == [base EXCEPT !.lineRes = parse_line(raw, now)]
       IN  IF raw = <<>>
           THEN \* if not raw: continue
                /\ UNCHANGED <<frame, pc, payload, site, hist>>
                /\ last' = base
           ELSE IF single.raised
           THEN /\ pc' = "crashed"
                /\ UNCHANGED <<frame, payload, site, hist>>
                /\ last' = tried
           ELSE IF single.some
           THEN \* write_atomic(OUT_FILE, single_sample)
                /\ pc' = "mkdir"
                /\ payload' = single.sample
                /\ site' = "single"
                /\ UNCHANGED frame
                /\ hist' = [hist EXCEPT !.built = single.sample]
                /\ last' = [tried EXCEPT !.wrote = "running", !.site = "single"]
           ELSE IF raw = Tilde
           THEN IF sample.ok
                THEN \* write_atomic(OUT_FILE, sample); frame.clear() follows it
                     /\ pc' = "mkdir"
                     /\ payload' = sample.sample
                     /\ site' = "frame"
                     /\ frame' = appended
                     /\ hist' = [hist EXCEPT !.built = sample.sample,
                                             !.fed = Append(@, raw)]
                     /\ last' = [tried EXCEPT !.tried = TRUE, !.frameRes = sample,
                                              !.wrote = "running", !.site = "frame"]
                ELSE \* except: skip; finally: frame.clear()
                     /\ frame' = truncate(<<>>)
                     /\ UNCHANGED <<pc, payload, site>>
                     /\ hist' = [hist EXCEPT !.fed = <<>>]
                     /\ last' = [tried EXCEPT !.tried = TRUE, !.frameRes = sample]
           ELSE /\ frame' = truncate(appended)
                /\ UNCHANGED <<pc, payload, site>>
                /\ hist' = [hist EXCEPT !.fed = Append(@, raw)]
                /\ last' = tried

-----------------------------------------------------------------------------
(* write_atomic, one step per system call.                                 *)

\* write_atomic returned: the rest of the iteration
Published ==
    /\ pc' = "poll"
    /\ payload' = NoSample
    /\ site' = "none"
    /\ frame' = IF site = "frame" THEN truncate(<<>>) ELSE frame
    /\ last' = [last EXCEPT !.wrote = "done"]

\* write_atomic raised: caught on the frame path, not on the single-line path
PublishRaised ==
    /\ pc' = IF caught(site) THEN "poll" ELSE "crashed"
    /\ payload' = NoSample
    /\ site' = "none"
    /\ frame' = IF site = "frame" THEN truncate(<<>>) ELSE frame
    /\ hist' = [hist EXCEPT !.failed = TRUE,
                            !.fed = IF site = "frame" THEN <<>> ELSE @]
    /\ last' = [last EXCEPT !.wrote = "failed"]

\* path.parent.mkdir(parents=True, exist_ok=True)
Mkdir ==
    /\ pc = "mkdir"
    /\ UNCHANGED <<now, names, inodes, rd, sent>>
    /\ \E ok \in BOOLEAN :
        IF ok THEN pc' = "open" /\ UNCHANGED <<frame, payload, site, hist, last>>
        ELSE PublishRaised

\* tmp.write_text: open(tmp, "w") creates the file or empties it
OpenTmp ==
    /\ pc = "open"
    /\ UNCHANGED <<now, rd, sent>>
    /\ \E ok \in BOOLEAN :
        IF ok
        THEN /\ pc' = "write"
             /\ UNCHANGED <<frame, payload, site, hist, last>>
             /\ IF names[with_suffix_tmp] = NoIno
                THEN /\ names' = [names EXCEPT ![with_suffix_tmp] = FreshIno]
                     /\ inodes' = (FreshIno :> [of |-> payload, n |-> 0]) @@ inodes
                ELSE /\ UNCHANGED names
                     /\ inodes' = [inodes EXCEPT ![names[with_suffix_tmp]] =
                                        [of |-> payload, n |-> 0]]
        ELSE PublishRaised /\ UNCHANGED <<names, inodes>>

\* tmp.write_text: one write() of the next chunk; close() after the last
WriteTmp ==
    /\ pc = "write"
    /\ UNCHANGED <<now, rd, sent, names>>
    /\ \E ok \in BOOLEAN :
        IF ok
        THEN /\ inodes' = [inodes EXCEPT ![names[with_suffix_tmp]].n = @ + 1]
             /\ pc' = IF inodes[names[with_suffix_tmp]].n + 1 = NChunks
                      THEN "replace" ELSE "write"
             /\ UNCHANGED <<frame, payload, site, hist, last>>
        ELSE PublishRaised /\ UNCHANGED inodes

\* tmp.replace(path): the rename
Replace ==
    /\ pc = "replace"
    /\ UNCHANGED <<now, rd, sent>>
    /\ \E ok \in BOOLEAN :
        IF ok
        THEN LET nm == replace(names, with_suffix_tmp, "out")
             IN  /\ names' = nm
                 /\ inodes' = Collect(inodes, nm, rd)
                 /\ hist' = [hist EXCEPT !.pubs = Append(@, payload),
                                         !.fed = IF site = "frame" THEN <<>> ELSE @]
                 /\ Published
        ELSE PublishRaised /\ UNCHANGED <<names, inodes>>

-----------------------------------------------------------------------------
(* app.py: one run of the script, the read split at open().                *)

NoRead == [kind |-> "none", text |-> NoText, seen |-> 0, at |-> "none"]

\* faulty variant: a failed read shows nothing
ReadFailed_forget(r, kind, text) ==
    rd' = [rd EXCEPT ![r].pc = "idle", ![r].fd = NoIno,
                     ![r].data = NoSample,
                     ![r].result = [kind |-> kind, text |-> text,
                                    seen |-> rd[r].seen, at |-> rd[r].at]]

\* except Exception: data = st.session_state.last_good
ReadFailed(r, kind, text) ==
    rd' = [rd EXCEPT ![r].pc = "idle", ![r].fd = NoIno,
                     ![r].data = rd[r].last_good,
                     ![r].result = [kind |-> kind, text |-> text,
                                    seen |-> rd[r].seen, at |-> rd[r].at]]

\* DATA_FILE.read_text: open()
ReaderOpen(r) ==
    /\ rd[r].pc = "idle"
    /\ UNCHANGED <<frame, pc, payload, site, now, names, inodes, sent, hist, last>>
    /\ IF names["out"] = NoIno
       THEN rd' = [rd EXCEPT ![r].pc = "idle", ![r].fd = NoIno,
                             ![r].seen = Len(hist.pubs), ![r].at = pc,
                             ![r].data = rd[r].last_good,
                             ![r].result = [kind |-> "absent", text |-> NoText,
                                            seen |-> Len(hist.pubs), at |-> pc]]
       ELSE rd' = [rd EXCEPT ![r].pc = "reading", ![r].fd = names["out"],
                             ![r].seen = Len(hist.pubs), ![r].at = pc]

\* DATA_FILE.read_text: read() and close(), then json.loads
ReaderRead(r) ==
    /\ rd[r].pc = "reading"
    /\ UNCHANGED <<frame, pc, payload, site, now, names, sent, hist, last>>
    /\ \E ioerr \in BOOLEAN :
        LET text == inodes[rd[r].fd]
        IN  /\ IF ioerr THEN ReadFailed(r, "ioerror", NoText)
               ELSE IF json_loads(text).ok
               THEN rd' = [rd EXCEPT ![r].pc = "idle", ![r].fd = NoIno,
                                     ![r].data = json_loads(text).sample,
                                     ![r].last_good = json_loads(text).sample,
                                     ![r].result = [kind |-> "text", text |-> text,
                                                    seen |-> rd[r].seen,
                                                    at |-> rd[r].at]]
               ELSE ReadFailed(r, "text", text)
            /\ inodes' = Collect(inodes, names, rd')

-----------------------------------------------------------------------------
(* The sensor: the lines the serial port delivers.                         *)

\* 'T=1,H=2,P=3'
CompactA == <<"T","=","1",",","H","=","2",",","P","=","3">>

\* 'temp = 4.50, RH=5 ,ba=6'
CompactB == <<"t","e","m","p"," ","="," ","4",".","5","0",","," ","R","H","=","5"," ",",","b","a","=","6">>

\* 'T=1,H=2'
CompactMissing == <<"T","=","1",",","H","=","2">>

\* 'TA:22.4'
FragTA == <<"T","A",":","2","2",".","4">>

\* 'TA:-7.5'
FragTA2 == <<"T","A",":","-","7",".","5">>

\* 'RH:50'
FragRH == <<"R","H",":","5","0">>

\* 'BA:1001.90'
FragBA == <<"B","A",":","1","0","0","1",".","9","0">>

\* 'BATT:87'
FragBATT == <<"B","A","T","T",":","8","7">>

\* 'TA:9'
OldTA == <<"T","A",":","9">>

\* 'BA:8'
OldBA == <<"B","A",":","8">>

RECURSIVE join(_, _)
join(xs, sep) ==
    IF xs = <<>> THEN <<>>
    ELSE IF Len(xs) = 1 THEN xs[1]
    ELSE xs[1] \o sep \o join(Tail(xs), sep)

upper_char(c) ==
    IF \E i \in 1..Len(LOWER) : LOWER[i] = c
    THEN UPPER[CHOOSE i \in 1..Len(LOWER) : LOWER[i] = c]
    ELSE c

upper(s) == [i \in 1..Len(s) |-> upper_char(s[i])]

\* one KEY=VALUE entry as the firmware prints it, padded or not
Entry(k, v, pad) ==
    IF pad THEN <<" ">> \o k \o <<" ", "=", " ">> \o v \o <<" ">>
    ELSE k \o <<"=">> \o v

UnknownEntries == << <<"B","A","T","T","=","8","7">>, <<"c","s","=","7","f">> >>

\* a compact line: the fields in p.order (a field whose key is <<>> is left
\* out), with the p.unknown-th unknown entry put first when p.unknown > 0
CompactLine(p) ==
    LET present == SelectSeq(p.order, LAMBDA i : p.keys[i] # <<>>)
        fields  == [j \in 1..Len(present) |->
                        Entry(p.keys[present[j]], p.vals[present[j]], p.pad)]
        entries == IF p.unknown = 0 THEN fields
                   ELSE IF p.last THEN Append(fields, UnknownEntries[p.unknown])
                   ELSE <<UnknownEntries[p.unknown]>> \o fields
    IN  join(entries, <<",">>)

AliasesOf(c) ==
    {alias[i][1] : i \in {j \in 1..Len(alias) : alias[j][2] = c}}

KeysOf(c) == AliasesOf(c) \cup {upper(k) : k \in AliasesOf(c)}

Orders == {<<1,2,3>>, <<1,3,2>>, <<2,1,3>>, <<2,3,1>>, <<3,1,2>>, <<3,2,1>>}

GoodVals == {<< <<"1",".","5">>, <<"2","0">>, <<"1","0","0","1",".","9","0">> >>,
             << <<"-","3">>, <<".","5">>, <<"7",".">> >>}

\* every alias, in lower and upper case, in every order, padded or not
AliasLines ==
    [kind : {"alias"},
     keys : KeysOf("temperature") \X KeysOf("humidity") \X KeysOf("pressure"),
     vals : GoodVals, order : Orders, pad : BOOLEAN, unknown : {0}, last : {FALSE}]

\* lines with fields missing or unparsable, with and without an unknown entry
UnknownLines ==
    [kind : {"unknown"},
     keys : {<<>>, <<"t">>, <<"T","A">>} \X {<<>>, <<"h">>, <<"R","H">>}
                \X {<<>>, <<"p">>, <<"B","A">>},
     vals : {<<"1",".","5">>, <<"x">>} \X {<<"2","0">>, <<"x">>}
                \X {<<"1","0","0","1",".","9","0">>, <<"x">>},
     order : {<<1,2,3>>, <<3,1,2>>}, pad : BOOLEAN,
     unknown : 0..Len(UnknownEntries), last : BOOLEAN]

NoSent ==
    [kind |-> "none", keys |-> <<>>, vals |-> <<>>, order |-> <<>>,
     pad |-> FALSE, unknown |-> 0, last |-> FALSE]

MaxLines == 2

MaxDecodeLines == 5

MaxUnitLines == 5

CapExtra == 3

PubLines == {CompactA, FragTA}

DecodeLines == {<<>>, Tilde, CompactA, CompactMissing, FragTA, FragRH, FragBA}

FrameLines == {Tilde, FragTA, FragTA2, FragRH, FragBA, FragBATT}

\* the n-th line of a sensor whose terminator is lost for MAX_FRAME lines
CapLines(n) ==
    IF n <= MAX_FRAME - KEEP_TAIL THEN {OldTA}
    ELSE IF n <= MAX_FRAME - 2 THEN {OldBA}
    ELSE IF n <= MAX_FRAME + 1 THEN {OldTA, FragRH, FragBA, Tilde}
    ELSE {FragTA, FragBA, Tilde}

\* a line of a frame, sent as it is
FrameSent(lines) ==
    [kind : {"frame"}, keys : {<<l>> : l \in lines}, vals : {<<>>}, order : {<<>>},
     pad : {FALSE}, unknown : {0}, last : {FALSE}]

\* the text of what the sensor sends
LineOf(p) == IF p.kind = "frame" THEN p.keys[1] ELSE CompactLine(p)

\* what the sensor may send next when it sends one unit
UnitSent ==
    IF now = 1 THEN AliasLines \cup UnknownLines \cup FrameSent(FrameLines)
    ELSE IF sent.kind = "frame" THEN FrameSent(FrameLines)
    ELSE {}

\* the sensor sends a line and the loop reads it
Feed(line, p) == ReadLine(line) /\ sent' = p

Init ==
    /\ frame = <<>>
    /\ pc = "poll"
    /\ payload = NoSample
    /\ site = "none"
    /\ now = 1
    /\ names = [k \in {"out", "tmp"} |-> NoIno]
    /\ inodes = <<>>
    /\ rd = [r \in Readers |->
                [pc |-> "idle", fd |-> NoIno, seen |-> 0, at |-> "none",
                 last_good |-> NoSample, data |-> NoSample, result |-> NoRead]]
    /\ sent = NoSent
    /\ hist = NoHist
    /\ last = NoLast

\* collector and readers
Next ==
    \/ now <= MaxLines /\ \E line \in PubLines : Feed(line, NoSent)
    \/ Mkdir
    \/ OpenTmp
    \/ WriteTmp
    \/ Replace
    \/ \E r \in Readers : ReaderOpen(r)
    \/ \E r \in Readers : ReaderRead(r)

Spec == Init /\ [][Next]_vars

\* the collector alone, on sequences of lines of both grammars
NextDecode ==
    \/ now <= MaxDecodeLines /\ \E line \in DecodeLines : Feed(line, NoSent)
    \/ Mkdir
    \/ OpenTmp
    \/ WriteTmp
    \/ Replace

SpecDecode == Init /\ [][NextDecode]_vars

\* one unit from IDLE: one compact line, or the lines of one frame
NextUnit ==
    \/ now <= MaxUnitLines /\ \E p \in UnitSent : Feed(LineOf(p), p)
    \/ Mkdir
    \/ OpenTmp
    \/ WriteTmp
    \/ Replace

SpecUnit == Init /\ [][NextUnit]_vars

\* a frame whose terminator is missing until the buffer is cut
NextCap ==
    \/ now <= MAX_FRAME + 1 + CapExtra /\ \E line \in CapLines(now) : Feed(line, NoSent)
    \/ Mkdir
    \/ OpenTmp
    \/ WriteTmp
    \/ Replace

SpecCap == Init /\ [][NextCap]_vars

-----------------------------------------------------------------------------
(* Properties.                                                             *)

Canonical == {"temperature", "humidity", "pressure"}

\* the unit lacks a canonical field after key normalisation
Lacks(kv) == \E c \in Canonical : ~dict_has(_normalize_keys(kv), c)

\* the clock value the last iteration read
LastTs == now - 1

\* C1: a read of OUT_FILE by any reader, opened at any step of write_atomic,
\* returns "file absent" only if no publish had completed when it opened the
\* path, and otherwise exactly the complete record that was the published one
\* at that moment (the previous one before the rename, the new one after it);
\* never a partial text.
C1_AtomicRead ==
    \A r \in Readers :
        /\ rd[r].result.kind = "absent" => rd[r].result.seen = 0
        /\ rd[r].result.kind = "text" =>
            /\ rd[r].result.seen >= 1
            /\ rd[r].result.text = json_dumps(hist.pubs[rd[r].result.seen])
            /\ json_loads(rd[r].result.text).ok

\* a reader opened the path between the temporary write and the rename and
\* read the previous complete record
C1_Witness ==
    \E r \in Readers :
        /\ rd[r].result.kind = "text"
        /\ rd[r].result.at = "replace"
        /\ rd[r].result.text.of # payload
        /\ pc = "replace"

\* the last line's decode failed: the single-line decode, and the frame decode
\* if the line was a terminator
DecodeFailed ==
    /\ last.raw # <<>>
    /\ ~last.lineRes.ok
    /\ last.tried => ~last.frameRes.ok

\* C2: after a line whose decode failed (as a single-line unit, and as a frame
\* if it is a terminator) the loop is at its poll again: it has not terminated
\* and has not called write_atomic.
C2_DecodeFailureContinues ==
    DecodeFailed => pc = "poll" /\ last.wrote = "none"

\* a frame failed to decode at its terminator and the loop polls again
C2_Witness ==
    /\ last.raw = Tilde
    /\ last.pre # <<>>
    /\ last.tried
    /\ ~last.frameRes.ok
    /\ pc = "poll"

\* C3: a failure of the publish step is non-fatal on both paths: the loop is
\* at its poll again and the snapshot is the one published before.
C3_PublishFailureNonFatal ==
    last.wrote = "failed" => pc = "poll" /\ Snapshot = last.before

\* the last line completed a unit and nothing of it went further
NothingPublished ==
    /\ ~last.lineRes.ok
    /\ ~last.frameRes.ok
    /\ last.wrote = "none"
    /\ pc = "poll"
    /\ payload = NoSample
    /\ Snapshot = last.before

\* C4: a compact line, or the buffer at a terminator, that lacks a canonical
\* field after key normalisation builds no Reading, does not reach
\* write_atomic and leaves the snapshot as it was before the line.
C4_MissingFieldNoPublish ==
    /\ (contains(last.raw, "=") /\ Lacks(line_kv(last.raw))) => NothingPublished
    /\ (last.raw = Tilde /\ Lacks(amws_kv(Append(last.pre, last.raw))))
            => NothingPublished

\* a frame lacking a field met its terminator while a snapshot was published
C4_Witness ==
    /\ last.raw = Tilde
    /\ last.pre # <<>>
    /\ Lacks(amws_kv(Append(last.pre, last.raw)))
    /\ Snapshot # NoText
    /\ Snapshot = last.before

\* C5: between iterations, if no publish step has failed, the snapshot is
\* absent when no unit has decoded yet and is otherwise the Reading of the
\* unit decoded last.
C5_SnapshotIsLatest ==
    (pc = "poll" /\ ~hist.failed) =>
        Snapshot = IF hist.built = NoSample THEN NoText ELSE json_dumps(hist.built)

\* a frame's Reading replaced an earlier Reading as the snapshot
C5_Witness ==
    /\ pc = "poll"
    /\ ~hist.failed
    /\ Len(hist.pubs) >= 2
    /\ last.site = "frame"
    /\ last.wrote = "done"
    /\ Snapshot = json_dumps(hist.built)


\* line l is KEY:VALUE for this key, written as the key itself
KeyLine(l, key) ==
    Len(l) > Len(key) + 1 /\ SubSeq(l, 1, Len(key) + 1) = key \o <<":">>

\* the number a KEY:VALUE line gives
ValueOf(l, key) == float(SubSeq(l, Len(key) + 2, Len(l)))

\* the buffer before the terminator was, from IDLE, one TA, one RH and one BA
\* line in the order o, each with a parsable value
FrameOfThree(o) ==
    /\ last.raw = Tilde
    /\ Len(last.pre) = 3
    /\ KeyLine(last.pre[o[1]], <<"T","A">>)
    /\ KeyLine(last.pre[o[2]], <<"R","H">>)
    /\ KeyLine(last.pre[o[3]], <<"B","A">>)
    /\ ValueOf(last.pre[o[1]], <<"T","A">>).ok
    /\ ValueOf(last.pre[o[2]], <<"R","H">>).ok
    /\ ValueOf(last.pre[o[3]], <<"B","A">>).ok

\* the last unit's Reading r went to write_atomic and is the snapshot once
\* write_atomic has returned
Handed(r) ==
    /\ last.wrote # "none"
    /\ last.wrote = "running" => payload = r
    /\ last.wrote = "done" => Snapshot = json_dumps(r)

\* C6: from IDLE, a TA, an RH and a BA line in any order, then the terminator:
\* the frame decodes, its Reading carries the TA, RH and BA values as
\* temperature_c, humidity_pct and pressure_hpa, it is handed to write_atomic
\* and it is the snapshot when write_atomic returns.
C6_FrameOfThreePublished ==
    \A o \in Orders :
        FrameOfThree(o) =>
            /\ last.frameRes.ok
            /\ last.frameRes.sample.temperature_c = ValueOf(last.pre[o[1]], <<"T","A">>).val
            /\ last.frameRes.sample.humidity_pct = ValueOf(last.pre[o[2]], <<"R","H">>).val
            /\ last.frameRes.sample.pressure_hpa = ValueOf(last.pre[o[3]], <<"B","A">>).val
            /\ Handed(last.frameRes.sample)

\* a frame sent as BA, TA, RH was published
C6_Witness ==
    /\ FrameOfThree(<<2, 3, 1>>)
    /\ last.wrote = "done"
    /\ Snapshot = json_dumps(last.frameRes.sample)

\* C7: in IDLE, a compact line giving each canonical field once, under any
\* alias in lower or upper case, padded or not, in any order: the line
\* decodes, its Reading carries the three values sent, it is handed to
\* write_atomic (and is the snapshot when that returns) and the buffer stays
\* empty.
C7_AliasLinePublished ==
    sent.kind = "alias" =>
        /\ last.pre = <<>>
        /\ last.lineRes.ok
        /\ last.lineRes.sample.temperature_c = float(sent.vals[1]).val
        /\ last.lineRes.sample.humidity_pct = float(sent.vals[2]).val
        /\ last.lineRes.sample.pressure_hpa = float(sent.vals[3]).val
        /\ Handed(last.lineRes.sample)
        /\ frame = <<>>

\* a padded upper-case line with the pressure first was published
C7_Witness ==
    /\ sent.kind = "alias"
    /\ sent.pad
    /\ sent.keys = << <<"T","E","M","P">>, <<"R","H">>, <<"P","R","E","S">> >>
    /\ sent.order = <<3, 1, 2>>
    /\ last.wrote = "done"
    /\ frame = <<>>

\* the buffered lines without the lines of unknown key
KnownLines(lines) == SelectSeq(lines, LAMBDA l : l # FragBATT)

\* C8: an entry of unknown key changes no decode: a compact line with such an
\* entry decodes to what the line without it decodes to (the same Reading or
\* the same exception), and so does a frame with such a line.
C8_UnknownKeysIgnored ==
    /\ (sent.kind = "unknown" /\ sent.unknown > 0) =>
            last.lineRes = parse_line(strip(CompactLine([sent EXCEPT !.unknown = 0])),
                                      LastTs)
    /\ last.tried =>
            last.frameRes = parse_amws_frame(KnownLines(Append(last.pre, last.raw)),
                                             LastTs)

\* a frame holding a line of unknown key was decoded and published
C8_Witness ==
    /\ last.tried
    /\ KnownLines(last.pre) # last.pre
    /\ last.frameRes.ok
    /\ last.wrote = "done"

\* C9: between iterations the buffer holds at most 300 lines, and after the
\* append that made it 301 lines long it holds the last 50 of them, in order.
C9_BufferCapped ==
    pc = "poll" =>
        /\ Len(frame) <= 300
        /\ (Len(last.pre) >= 300 /\ last.raw \notin {<<>>, Tilde} /\ ~last.lineRes.ok) =>
                /\ Len(frame) = 50
                /\ frame = [i \in 1..50 |->
                                Append(last.pre, last.raw)[Len(last.pre) + 1 - 50 + i]]

\* the 301st line was appended and the buffer cut
C9_Witness ==
    /\ pc = "poll"
    /\ Len(last.pre) = 300
    /\ last.raw = FragRH
    /\ Len(frame) = 50
    /\ frame[50] = FragRH

\* the lines buffered since the buffer was last empty, those of the first cut
\* left out: what the next terminator may decode
Retained(fed) == SubSeq(fed, 301 - 50 + 1, Len(fed))

\* C10: a terminator that follows a cut of the buffer decodes exactly the 50
\* lines the cut kept and the lines appended since (up to the next cut): the
\* lines the cut dropped give no field, and a Reading the kept lines give is
\* handed to write_atomic.
C10_DecodeAfterCut ==
    (last.tried /\ Len(last.fed) > 300 /\ Len(last.fed) <= 300 + 251) =>
        /\ last.frameRes = parse_amws_frame(Append(Retained(last.fed), Tilde), LastTs)
        /\ last.frameRes.ok => Handed(last.frameRes.sample)

\* after a cut the terminator found no temperature, though dropped lines had one
C10_Witness ==
    /\ last.tried
    /\ Len(last.fed) > 300
    /\ ~last.frameRes.ok
    /\ parse_amws_frame(Append(last.fed, Tilde), LastTs).ok

\* after a cut the kept lines gave a Reading, which was published
C10_PublishedAfterCut ==
    /\ last.tried
    /\ Len(last.fed) > 300
    /\ last.frameRes.ok
    /\ last.wrote = "done"

-----------------------------------------------------------------------------
(* Lines with values and separators at the edges of the two grammars.      *)

\* 'T=nan,H=2,P=3'
CompactNan == <<"T","=","n","a","n",",","H","=","2",",","P","=","3">>

\* 'T=1,H=x,P=3'
CompactBad == <<"T","=","1",",","H","=","x",",","P","=","3">>

\* 'TA:inf'
FragInf == <<"T","A",":","i","n","f">>

\* 'TA:22.4:C'
FragUnit == <<"T","A",":","2","2",".","4",":","C">>

\* '  ', a line of white space
Blank == <<" "," ">>

MaxEdgeLines == 4

EdgeLines ==
    {<<>>, Blank, Tilde, CompactNan, CompactBad, FragInf, FragUnit, FragRH, FragBA}

\* a line sent as it is, kept as sent
LineSent(line) == [NoSent EXCEPT !.kind = "line", !.keys = <<line>>]

\* lines with non-finite values, a second colon, or white space only
NextEdge ==
    \/ now <= MaxEdgeLines /\ \E line \in EdgeLines : Feed(line, LineSent(line))
    \/ Mkdir
    \/ OpenTmp
    \/ WriteTmp
    \/ Replace

SpecEdge == Init /\ [][NextEdge]_vars

\* a canonical field of the unit is present with a text that float does not
\* turn into a finite number
NotFinite(kv) ==
    \E c \in Canonical :
        /\ dict_has(_normalize_keys(kv), c)
        /\ LET f == float(dict_get(_normalize_keys(kv), c))
           IN  ~f.ok \/ f.val.kind # "finite"

\* a canonical field of the unit is present with a text float rejects
Unparsable(kv) ==
    \E c \in Canonical :
        /\ dict_has(_normalize_keys(kv), c)
        /\ ~float(dict_get(_normalize_keys(kv), c)).ok

\* C11: a unit with a canonical field whose text is not a finite number
\* (unparsable, or 'nan' or 'inf') builds no Reading and publishes nothing.
C11_NonFiniteNoPublish ==
    /\ (contains(last.raw, "=") /\ NotFinite(line_kv(last.raw))) => NothingPublished
    /\ (last.raw = Tilde /\ NotFinite(amws_kv(Append(last.pre, last.raw))))
            => NothingPublished

\* the part of C11 the code keeps: a text float rejects publishes nothing
C11_UnparsableNoPublish ==
    /\ (contains(last.raw, "=") /\ Unparsable(line_kv(last.raw))) => NothingPublished
    /\ (last.raw = Tilde /\ Unparsable(amws_kv(Append(last.pre, last.raw))))
            => NothingPublished

\* a Reading whose temperature is not a number became the snapshot
C11_Witness ==
    /\ last.raw = CompactNan
    /\ last.wrote = "done"
    /\ Snapshot # NoText
    /\ Snapshot.of.temperature_c.kind = "nan"

-----------------------------------------------------------------------------
(* app.py: what a run of the script shows.                                 *)

\* if data: (None is false, a record with fields is true)
truthy(data) == data # NoSample

\* the metrics of data, or st.info("Waiting for data from collector...")
Shown(reader) == IF truthy(reader.data) THEN "metrics" ELSE "waiting"

\* reader r ends a run of the script in this step
RunEnds(r) == rd'[r] # rd[r] /\ rd'[r].pc = "idle"

\* the run of r that ends in this step read a complete record
ReadGood(r) ==
    rd'[r].result.kind = "text" /\ json_loads(rd'[r].result.text).ok

\* what C12 asks of one step of reader r
ReaderStep(r) ==
    IF RunEnds(r)
    THEN /\ ReadGood(r) =>
                /\ rd'[r].data = hist.pubs[rd'[r].result.seen]
                /\ rd'[r].last_good = rd'[r].data
         /\ ~ReadGood(r) =>
                /\ rd'[r].data = rd[r].last_good
                /\ rd'[r].last_good = rd[r].last_good
         /\ Shown(rd'[r]) = "waiting" <=> (rd[r].last_good = NoSample /\ ~ReadGood(r))
         /\ rd'[r].pc # "crashed"
    ELSE /\ rd'[r].last_good = rd[r].last_good
         /\ rd'[r].data = rd[r].data

\* C12: a session starts with nothing read; a run that reads a complete record
\* shows it (the record published when the run opened the file) and keeps it;
\* a run whose read fails shows the record kept, and "waiting" only if none
\* was ever kept; the record kept changes in no other step, so a session that
\* has shown a record never shows "waiting" again, and no read error ends it.
C12_ReaderKeepsLastGood ==
    [][\A r \in Readers : ReaderStep(r)]_vars

\* after reading a record, a run failed to read and shows the record kept,
\* while the collector has published a newer one
C12_Witness ==
    \E r \in Readers :
        /\ rd[r].result.kind = "ioerror"
        /\ rd[r].pc = "idle"
        /\ Shown(rd[r]) = "metrics"
        /\ rd[r].data = hist.pubs[1]
        /\ Len(hist.pubs) = 2

-----------------------------------------------------------------------------
(* The assembler: IDLE is the empty buffer, ACCUMULATING the non-empty one. *)

\* C13: a line that is not a terminator and arrives while the buffer is
\* non-empty is appended to the buffer and nothing of it goes to
\* write_atomic, also when it is a compact line; a single-line unit is
\* emitted only from the empty buffer.
C13_AccumulatingAppends ==
    /\ (last.pre # <<>> /\ last.raw \notin {<<>>, Tilde}) =>
            /\ last.wrote = "none"
            /\ frame = truncate(Append(last.pre, last.raw))
    /\ last.site = "single" => last.pre = <<>>

\* a compact line that arrived behind a buffered fragment was published and
\* the buffer kept the fragment only
C13_Witness ==
    /\ last.pre = <<FragTA>>
    /\ last.raw = CompactA
    /\ last.wrote = "done"
    /\ frame = <<FragTA>>
    /\ Snapshot = json_dumps(last.lineRes.sample)

\* C14: in IDLE, a line with a key=value pair that fails to decode leaves
\* the buffer empty: the assembler is still IDLE after the line.
C14_FailedCompactLeavesIdle ==
    (last.pre = <<>> /\ contains(last.raw, "=") /\ ~last.lineRes.ok) =>
        (frame = <<>> /\ last.wrote = "none" /\ pc = "poll")

\* the compact line without a pressure is in the buffer
C14_Witness ==
    /\ last.pre = <<>>
    /\ last.raw = CompactMissing
    /\ ~last.lineRes.ok
    /\ frame = <<CompactMissing>>
    /\ pc = "poll"

\* C15: once the iteration of a terminator line is over the buffer is empty
\* (IDLE), whether the frame decoded and was published, failed to decode or
\* failed to publish; none of these ends the loop; and a terminator that
\* found the buffer empty publishes nothing.
C15_TerminatorClears ==
    last.raw = Tilde =>
        /\ last.tried
        /\ pc # "crashed"
        /\ pc = "poll" => frame = <<>>
        /\ last.pre = <<>> =>
                (~last.frameRes.ok /\ last.wrote = "none" /\ Snapshot = last.before)

\* a frame decoded at its terminator, its publish failed, and the buffer is
\* empty
C15_Witness ==
    /\ last.raw = Tilde
    /\ last.pre # <<>>
    /\ last.frameRes.ok
    /\ last.wrote = "failed"
    /\ pc = "poll"
    /\ frame = <<>>

\* the n-th line of a sensor that stops sending terminators and, once the
\* buffer is nearly full, sends lines of every kind
HoldLines(n) ==
    IF n <= MAX_FRAME - 1 THEN {OldTA} ELSE {<<>>, CompactA, FragRH, Tilde}

\* an unterminated frame that meets empty polls, compact lines, fragments,
\* the cut of the buffer and, at last, a terminator
NextHold ==
    \/ now <= MAX_FRAME + 1 + CapExtra /\ \E line \in HoldLines(now) : Feed(line, NoSent)
    \/ Mkdir
    \/ OpenTmp
    \/ WriteTmp
    \/ Replace

SpecHold == Init /\ [][NextHold]_vars

\* C16: a step empties a non-empty buffer only when the line being processed
\* is a terminator, and only such a line triggers a frame decode or the
\* publication of a frame's Reading: no empty poll, compact line, fragment or
\* cut of the buffer does, so a frame without terminator stays buffered.
C16_OnlyTerminatorCompletes ==
    [][/\ (frame # <<>> /\ frame' = <<>>) => last'.raw = Tilde
       /\ last'.tried => last'.raw = Tilde
       /\ last'.site = "frame" => last'.raw = Tilde]_vars

\* the frame survived the cut of the buffer and a compact line that was
\* published meanwhile
C16_Witness ==
    /\ Len(last.fed) = MAX_FRAME + 1
    /\ last.raw = CompactA
    /\ last.wrote = "done"
    /\ Len(frame) = KEEP_TAIL
    /\ pc = "poll"

-----------------------------------------------------------------------------
(* Which line of a unit gives a field.                                     *)

\* the canonical field a key feeds, "none" for a key outside the alias table
FieldOf(key) ==
    IF dict_has(alias, lower(strip(key))) THEN dict_get(alias, lower(strip(key)))
    ELSE "none"

\* the canonical field a buffered line feeds
LineField(l) == IF contains(l, ":") THEN FieldOf(split1(l, ":")[1]) ELSE "none"

\* all the text after the first colon of a line, trimmed
RestOf(l) == strip(split1(l, ":")[2])

\* the last of the lines that feeds field c, 0 if none does
LastFor(lines, c) ==
    IF \E i \in 1..Len(lines) : LineField(lines[i]) = c
    THEN CHOOSE i \in 1..Len(lines) :
            /\ LineField(lines[i]) = c
            /\ \A j \in (i + 1)..Len(lines) : LineField(lines[j]) # c
    ELSE 0

\* the lines the decode at the last terminator was given
Buffered == Append(last.pre, last.raw)

\* C17: the value of a buffered line is all its text after the first colon,
\* so a frame in which the line giving a field has a second colon in that
\* text fails to decode.
C17_SecondColonFails ==
    last.tried =>
        \A c \in Canonical :
            (/\ LastFor(Buffered, c) > 0
             /\ contains(RestOf(Buffered[LastFor(Buffered, c)]), ":"))
                => ~last.frameRes.ok

\* the frame 'TA:22.4:C', 'RH:50', 'BA:1001.90' was published with the
\* temperature 22.4
C17_Witness ==
    /\ last.raw = Tilde
    /\ last.pre = <<FragUnit, FragRH, FragBA>>
    /\ last.frameRes.ok
    /\ last.frameRes.sample.temperature_c = float(<<"2","2",".","4">>).val
    /\ last.wrote = "done"
    /\ Snapshot = json_dumps(last.frameRes.sample)

\* a line without what follows the second colon
CutLine(l) ==
    IF contains(l, ":") /\ contains(RestOf(l), ":")
    THEN split1(l, ":")[1] \o <<":">> \o split1(RestOf(l), ":")[1]
    ELSE l

\* C17, as the code has it: the value of a buffered line is the text between
\* its first colon and its second one, if there is one; what follows a second
\* colon is ignored, so the frame decodes to what it decodes to with every
\* line cut at its second colon ('TA:22.4:C' gives 22.4).
C17_TextAfterSecondColonIgnored ==
    last.tried =>
        last.frameRes =
            parse_amws_frame([i \in 1..Len(Buffered) |-> CutLine(Buffered[i])], LastTs)

\* the line the sensor sent last was empty or white space only
SentEmpty ==
    /\ sent.kind = "line"
    /\ \A i \in 1..Len(sent.keys[1]) : sent.keys[1][i] \in WS

\* C18: an empty poll (a read timeout, or a line that is empty once trimmed)
\* changes nothing: the buffer, and so the assembler state, and the snapshot
\* are what they were, nothing is decoded and nothing goes to write_atomic.
C18_EmptyPollNoOp ==
    SentEmpty =>
        /\ frame = last.pre
        /\ Snapshot = last.before
        /\ last.lineRes = NoResult
        /\ ~last.tried
        /\ last.wrote = "none"
        /\ payload = NoSample
        /\ pc = "poll"

\* a line of white space arrived while a fragment was buffered and a snapshot
\* was published
C18_Witness ==
    /\ sent.kind = "line"
    /\ sent.keys[1] = Blank
    /\ last.pre # <<>>
    /\ frame = last.pre
    /\ Snapshot # NoText
    /\ Snapshot = last.before

-----------------------------------------------------------------------------
(* Units in which several lines or pairs feed the same field.              *)

\* 'T:2'
FragT == <<"T",":","2">>

\* 'T=1,temp=2,T=3,H=1,P=1'
CompactDup == <<"T","=","1",",","t","e","m","p","=","2",",","T","=","3",",","H","=","1",",","P","=","1">>

MaxLastLines == 6

LastLines == {Tilde, OldTA, FragT, FragRH, OldBA, CompactDup}

\* frames with fields left over and fields given more than once
NextLast ==
    \/ now <= MaxLastLines /\ \E line \in LastLines : Feed(line, NoSent)
    \/ Mkdir
    \/ OpenTmp
    \/ WriteTmp
    \/ Replace

SpecLast == Init /\ [][NextLast]_vars

\* the value text the multi-line grammar takes from a line
ValueText(l) == split1(RestOf(l), ":")[1]

\* the key=value pairs of a compact line, as <<key, value>>
PairsOf(line) == [i \in 1..Len(chunks_of(line)) |-> split1(chunks_of(line)[i], "=")]

\* the last of the pairs that feeds field c, 0 if none does
LastPair(pairs, c) ==
    IF \E i \in 1..Len(pairs) : FieldOf(pairs[i][1]) = c
    THEN CHOOSE i \in 1..Len(pairs) :
            /\ FieldOf(pairs[i][1]) = c
            /\ \A j \in (i + 1)..Len(pairs) : FieldOf(pairs[j][1]) # c
    ELSE 0

\* the field of a Reading that canonical field c fills
FieldValue(sample, c) ==
    CASE c = "temperature" -> sample.temperature_c
      [] c = "humidity" -> sample.humidity_pct
      [] c = "pressure" -> sample.pressure_hpa

\* C19: the Reading of a frame is built from all the buffered lines, each
\* field from the last buffered line whose key is an alias of it, and the
\* Reading of a compact line takes each field from the last pair whose key is
\* an alias of it.
C19_LastLineWins ==
    /\ (last.tried /\ last.frameRes.ok) =>
            \A c \in Canonical :
                FieldValue(last.frameRes.sample, c) =
                    float(ValueText(Buffered[LastFor(Buffered, c)])).val
    /\ last.lineRes.ok =>
            \A c \in Canonical :
                FieldValue(last.lineRes.sample, c) =
                    float(PairsOf(last.raw)[LastPair(PairsOf(last.raw), c)][2]).val

\* the lines feeding a field all spell its key the same way
SameKeys(lines) ==
    \A i, j \in 1..Len(lines) :
        (LineField(lines[i]) # "none" /\ LineField(lines[i]) = LineField(lines[j]))
            => strip(split1(lines[i], ":")[1]) = strip(split1(lines[j], ":")[1])

\* the part of C19 the code keeps: with one spelling per field the last
\* buffered line gives the field, lines of an unterminated frame included
C19_SameKeyLastWins ==
    (last.tried /\ last.frameRes.ok /\ SameKeys(Buffered)) =>
        \A c \in Canonical :
            FieldValue(last.frameRes.sample, c) =
                float(ValueText(Buffered[LastFor(Buffered, c)])).val

\* the frame 'TA:9', 'T:2', 'TA:9', 'RH:50', 'BA:8' was published with the
\* temperature 2
C19_Witness ==
    /\ last.raw = Tilde
    /\ last.pre = <<OldTA, FragT, OldTA, FragRH, OldBA>>
    /\ last.frameRes.ok
    /\ last.frameRes.sample.temperature_c = float(<<"2">>).val
    /\ last.wrote = "done"
    /\ Snapshot = json_dumps(last.frameRes.sample)

====
